---- MODULE Spec2Model ----
(***************************************************************************)
(* Model of the Pillar/Scanner evaluation framework of                      *)
(* agent-readiness-score: src/src/agent_readiness/pillar.py, scanner.py    *)
(* and models.py, of the evaluate() of the built-in pillars                *)
(* (pillars/style.py), of cli.py (pillar lookup, main with its level       *)
(* filter, output and error handlers), of the formatters of                *)
(* skills/AgentReadiness/scan.py and of the tools of mcp_server.py.        *)
(*                                                                          *)
(* Scores are Python floats in the source.  They are modelled as exact     *)
(* rationals <<n, d>> (d > 0, lowest terms), so that the arithmetic of     *)
(* Pillar.run and Scanner._calculate_overall_score is the arithmetic the   *)
(* source writes, without the rounding of IEEE doubles.                    *)
(***************************************************************************)
EXTENDS Integers, Sequences, FiniteSets, TLC

VARIABLES
    _pillars,        \* Scanner._pillars: the ordered registry
    pc,              \* "idle", or "running" inside the list comprehension of scan
    target,          \* the kind of path the current/last scan was called with
    idx,             \* position of the comprehension in _pillars
    pillar_results,  \* the PillarResults built so far by the comprehension
    result,          \* the ScanResult returned by the last call, or NoResult
    raised,          \* the exception that left the last call, or NoException
    log,             \* calls made by the current/last scan, in order
    call             \* a direct call of one function: its arguments and its return value

vars == <<_pillars, pc, target, idx, pillar_results, result, raised, log, call>>

----------------------------------------------------------------------------
(* Bounds *)

MaxPillars == 2
MaxChecks == 2
MaxBatch == 2
MaxRunChecks == 4

----------------------------------------------------------------------------
(* Rational arithmetic standing for float arithmetic *)

Abs(x) == IF x < 0 THEN -x ELSE x

RECURSIVE GCD(_, _)
GCD(a, b) == IF b = 0 THEN a ELSE GCD(b, a % b)

\* n/d in lowest terms with a positive denominator (d # 0)
Rat(n, d) ==
    LET g == GCD(Abs(n), Abs(d))
        s == IF d < 0 THEN -1 ELSE 1
    IN  <<(s * n) \div g, (s * d) \div g>>

R(i) == <<i, 1>>
RAdd(a, b) == Rat(a[1] * b[2] + b[1] * a[2], a[2] * b[2])
RMul(a, b) == Rat(a[1] * b[1], a[2] * b[2])
RDiv(a, b) == Rat(a[1] * b[2], a[2] * b[1])
RLess(a, b) == a[1] * b[2] < b[1] * a[2]
RLeq(a, b) == a[1] * b[2] <= b[1] * a[2]

RECURSIVE RSum(_)
RSum(s) == IF s = <<>> THEN R(0) ELSE RAdd(RSum(SubSeq(s, 1, Len(s) - 1)), s[Len(s)])

----------------------------------------------------------------------------
(* Pillars: instances of concrete Pillar subclasses *)

PillarIds == {"p1", "p2", "p3", "p4"}

\* Pillar.name of each instance; p1 and p2 share a name
PillarName(p) == IF p \in {"p1", "p2"} THEN "Style" ELSE IF p = "p3" THEN "Build" ELSE "Custom"

\* Pillar.weight: 1.0 unless the subclass overrides the property
PillarWeight(p) ==
    CASE p = "p1" -> R(1)
      [] p = "p2" -> R(3)
      [] p = "p3" -> R(0)
      [] p = "p4" -> R(-1)

\* the lists of at most m CheckResults: the k-th check carries name k
CheckListsUpTo(m) ==
    UNION {{[k \in 1..n |-> [name |-> k, passed |-> f[k]]] : f \in [1..n -> BOOLEAN]} :
           n \in 0..m}

\* the lists of CheckResults an evaluate() returns during a scan
CheckLists == CheckListsUpTo(MaxChecks)

\* the exceptions an evaluate() that breaks its contract can raise
PillarErrors == {"AttributeError", "PermissionError"}

\* what a call of evaluate() does: it returns a list of checks, or it raises
EvaluateOutcomes ==
    {[raises |-> FALSE, checks |-> c, exc |-> "None"] : c \in CheckLists}
    \cup {[raises |-> TRUE, checks |-> <<>>, exc |-> e] : e \in PillarErrors}

PassedCount(checks) == Cardinality({k \in 1..Len(checks) : checks[k].passed})

\* Pillar.run scoring a pillar without checks 0.0, as the overall score does
Run_EmptyIsZero(p, checks) ==
    LET score == IF checks = <<>> THEN R(0)
                 ELSE RMul(Rat(PassedCount(checks), Len(checks)), R(100))
    IN  [name |-> PillarName(p), checks |-> checks, score |-> score, weight |-> PillarWeight(p)]

\* Pillar.run leaving the weight of the PillarResult at its default 1.0
Run_DefaultWeight(p, checks) ==
    LET score == IF checks = <<>> THEN R(100)
                 ELSE RMul(Rat(PassedCount(checks), Len(checks)), R(100))
    IN  [name |-> PillarName(p), checks |-> checks, score |-> score, weight |-> R(1)]

\* Pillar.run, given the list evaluate() returned
Run(p, checks) ==
    LET score == IF checks = <<>> THEN R(100)
                 ELSE RMul(Rat(PassedCount(checks), Len(checks)), R(100))
    IN  [name |-> PillarName(p), checks |-> checks, score |-> score, weight |-> PillarWeight(p)]

----------------------------------------------------------------------------
(* Scanner *)

\* the generators that _calculate_overall_score sums
Weights(prs) == [k \in 1..Len(prs) |-> prs[k].weight]
WeightedScores(prs) == [k \in 1..Len(prs) |-> RMul(prs[k].score, prs[k].weight)]

Scores(prs) == [k \in 1..Len(prs) |-> prs[k].score]

\* the overall score as the plain mean of the pillar scores
_calculate_overall_score_Unweighted(prs) ==
    IF prs = <<>> THEN R(0)
    ELSE RDiv(RSum(Scores(prs)), R(Len(prs)))

\* the weighted sum divided by the number of pillars instead of the total weight
_calculate_overall_score_DivideByCount(prs) ==
    IF prs = <<>> THEN R(0)
    ELSE LET total_weight == RSum(Weights(prs))
         IN  IF total_weight = R(0) THEN R(0)
             ELSE RDiv(RSum(WeightedScores(prs)), R(Len(prs)))

\* a weight of 0 read as the default weight 1.0
_calculate_overall_score_ZeroIsDefault(prs) ==
    IF prs = <<>> THEN R(0)
    ELSE LET w == [k \in 1..Len(prs) |->
                      IF prs[k].weight = R(0) THEN R(1) ELSE prs[k].weight]
             total_weight == RSum(w)
         IN  IF total_weight = R(0) THEN R(0)
             ELSE RDiv(RSum([k \in 1..Len(prs) |-> RMul(prs[k].score, w[k])]), total_weight)

\* a total weight of 0 scored like a pillar without checks: 100.0
_calculate_overall_score_ZeroTotalIsPerfect(prs) ==
    IF prs = <<>> THEN R(0)
    ELSE LET total_weight == RSum(Weights(prs))
         IN  IF total_weight = R(0) THEN R(100)
             ELSE RDiv(RSum(WeightedScores(prs)), total_weight)

_calculate_overall_score(prs) ==
    IF prs = <<>> THEN R(0)
    ELSE LET total_weight == RSum(Weights(prs))
         IN  IF total_weight = R(0) THEN R(0)
             ELSE RDiv(RSum(WeightedScores(prs)), total_weight)

\* the thresholds compared with <=: a score on a threshold gets the lower level
_determine_maturity_level_Inclusive(score) ==
    IF RLeq(score, R(40)) THEN 1
    ELSE IF RLeq(score, R(60)) THEN 2
    ELSE IF RLeq(score, R(80)) THEN 3
    ELSE IF RLeq(score, R(95)) THEN 4
    ELSE 5

_determine_maturity_level(score) ==
    IF RLess(score, R(40)) THEN 1
    ELSE IF RLess(score, R(60)) THEN 2
    ELSE IF RLess(score, R(80)) THEN 3
    ELSE IF RLess(score, R(95)) THEN 4
    ELSE 5

\* the other two score-to-level functions
\* cli._get_level_from_score with the boundaries inclusive (>= instead of >)
_get_level_from_score_Inclusive(score) ==
    IF RLeq(score, R(40)) THEN 1
    ELSE IF RLeq(score, R(60)) THEN 2
    ELSE IF RLeq(score, R(80)) THEN 3
    ELSE IF RLeq(score, R(95)) THEN 4
    ELSE 5

\* cli._get_level_from_score(score)
_get_level_from_score(score) ==
    IF RLess(score, R(40)) THEN 1
    ELSE IF RLess(score, R(60)) THEN 2
    ELSE IF RLess(score, R(80)) THEN 3
    ELSE IF RLess(score, R(95)) THEN 4
    ELSE 5

\* skills/AgentReadiness/scan.get_level_from_score(score)
get_level_from_score(score) ==
    IF RLess(score, R(40)) THEN 1
    ELSE IF RLess(score, R(60)) THEN 2
    ELSE IF RLess(score, R(80)) THEN 3
    ELSE IF RLess(score, R(95)) THEN 4
    ELSE 5

NoResult == [none |-> TRUE]
NoException == [type |-> "None", msg |-> "None"]

\* the kinds of path scan can be called with
Targets == {"dir", "file", "missing"}
PathExists(t) == t # "missing"
PathIsDir(t) == t = "dir"

\* entries of log: a call made by scan, i is the registry position it concerns
Ev(op, i) == [op |-> op, i |-> i]
EvalEv(i, out) == [op |-> "evaluate", i |-> i, out |-> out]

\* no function is called directly
NoCall == [fn |-> "none"]

\* a new Scanner
NewScanner ==
    /\ _pillars = <<>>
    /\ pc = "idle"
    /\ target = "dir"
    /\ idx = 1
    /\ pillar_results = <<>>
    /\ result = NoResult
    /\ raised = NoException
    /\ log = <<>>

Init ==
    /\ NewScanner
    /\ call = NoCall

\* what the caller holds after a call that is not a scan
NoScan ==
    /\ target' = "dir"
    /\ idx' = 1
    /\ pillar_results' = <<>>
    /\ result' = NoResult
    /\ raised' = NoException
    /\ log' = <<>>

register_pillar(p) ==
    /\ pc = "idle"
    /\ Len(_pillars) < MaxPillars
    /\ _pillars' = Append(_pillars, p)
    /\ pc' = pc
    /\ NoScan
    /\ call' = NoCall

BatchLists == UNION {[1..n -> PillarIds] : n \in 0..MaxBatch}

\* a batch registration that skips the pillars the registry already holds
RECURSIVE AddNew(_, _)
AddNew(registry, L) ==
    IF L = <<>> THEN registry
    ELSE AddNew(IF \E k \in 1..Len(registry) : registry[k] = Head(L)
                THEN registry ELSE Append(registry, Head(L)),
                Tail(L))

register_pillars_Dedup(L) ==
    /\ pc = "idle"
    /\ Len(_pillars) + Len(L) <= MaxPillars
    /\ _pillars' = AddNew(_pillars, L)
    /\ pc' = pc
    /\ NoScan
    /\ call' = NoCall

register_pillars(L) ==
    /\ pc = "idle"
    /\ Len(_pillars) + Len(L) <= MaxPillars
    /\ _pillars' = _pillars \o L
    /\ pc' = pc
    /\ NoScan
    /\ call' = NoCall

\* the preconditions with the path examined before the registry
Preconditions_PathFirst(registry, t) ==
    IF ~PathExists(t)
    THEN [exc |-> [type |-> "FileNotFoundError", msg |-> "Target directory does not exist"],
          calls |-> <<Ev("exists", 0)>>]
    ELSE IF ~PathIsDir(t)
    THEN [exc |-> [type |-> "ValueError", msg |-> "Target path is not a directory"],
          calls |-> <<Ev("exists", 0), Ev("is_dir", 0)>>]
    ELSE IF registry = <<>>
    THEN [exc |-> [type |-> "ValueError", msg |-> "No pillars registered"],
          calls |-> <<Ev("exists", 0), Ev("is_dir", 0), Ev("registry", 0)>>]
    ELSE [exc |-> NoException,
          calls |-> <<Ev("exists", 0), Ev("is_dir", 0), Ev("registry", 0)>>]

\* the preconditions without the test that the path exists
Preconditions_NoExists(registry, t) ==
    IF registry = <<>>
    THEN [exc |-> [type |-> "ValueError", msg |-> "No pillars registered"],
          calls |-> <<Ev("registry", 0)>>]
    ELSE IF ~PathIsDir(t)
    THEN [exc |-> [type |-> "ValueError", msg |-> "Target path is not a directory"],
          calls |-> <<Ev("registry", 0), Ev("is_dir", 0)>>]
    ELSE [exc |-> NoException,
          calls |-> <<Ev("registry", 0), Ev("is_dir", 0)>>]

\* the preconditions without the test that the path is a directory
Preconditions_NoIsDir(registry, t) ==
    IF registry = <<>>
    THEN [exc |-> [type |-> "ValueError", msg |-> "No pillars registered"],
          calls |-> <<Ev("registry", 0)>>]
    ELSE IF ~PathExists(t)
    THEN [exc |-> [type |-> "FileNotFoundError", msg |-> "Target directory does not exist"],
          calls |-> <<Ev("registry", 0), Ev("exists", 0)>>]
    ELSE [exc |-> NoException,
          calls |-> <<Ev("registry", 0), Ev("exists", 0)>>]

\* the three preconditions of scan, in the order the code tests them: the
\* exception raised (NoException when all hold) and the tests made
Preconditions(registry, t) ==
    IF registry = <<>>
    THEN [exc |-> [type |-> "ValueError", msg |-> "No pillars registered"],
          calls |-> <<Ev("registry", 0)>>]
    ELSE IF ~PathExists(t)
    THEN [exc |-> [type |-> "FileNotFoundError", msg |-> "Target directory does not exist"],
          calls |-> <<Ev("registry", 0), Ev("exists", 0)>>]
    ELSE IF ~PathIsDir(t)
    THEN [exc |-> [type |-> "ValueError", msg |-> "Target path is not a directory"],
          calls |-> <<Ev("registry", 0), Ev("exists", 0), Ev("is_dir", 0)>>]
    ELSE [exc |-> NoException,
          calls |-> <<Ev("registry", 0), Ev("exists", 0), Ev("is_dir", 0)>>]

\* a scan that first drops from the registry the pillars registered twice
scan_begin_Dedup(t) ==
    /\ pc = "idle"
    /\ target' = t
    /\ idx' = 1
    /\ pillar_results' = <<>>
    /\ result' = NoResult
    /\ _pillars' = AddNew(<<>>, _pillars)
    /\ call' = NoCall
    /\ LET pre == Preconditions(_pillars, t)
       IN  /\ raised' = pre.exc
           /\ log' = pre.calls
           /\ pc' = IF pre.exc = NoException THEN "running" ELSE "idle"

\* scan, from the call to the start of the comprehension
scan_begin(t) ==
    /\ pc = "idle"
    /\ target' = t
    /\ idx' = 1
    /\ pillar_results' = <<>>
    /\ result' = NoResult
    /\ UNCHANGED _pillars
    /\ call' = NoCall
    /\ LET pre == Preconditions(_pillars, t)
       IN  /\ raised' = pre.exc
           /\ log' = pre.calls
           /\ pc' = IF pre.exc = NoException THEN "running" ELSE "idle"

\* the ScanResult that scan builds after the comprehension
ScanResult(prs, t) ==
    LET overall_score == _calculate_overall_score(prs)
    IN  [pillars |-> prs,
         overall_score |-> overall_score,
         maturity_level |-> _determine_maturity_level(overall_score),
         target_directory |-> t]

\* an iteration in which scan calls evaluate itself before it calls run
scan_run_pillar_EvaluateTwice(out) ==
    /\ pc = "running"
    /\ UNCHANGED <<_pillars, target>>
    /\ call' = NoCall
    /\ IF out.raises
       THEN /\ raised' = [type |-> out.exc, msg |-> _pillars[idx]]
            /\ log' = log \o <<EvalEv(idx, out)>>
            /\ pillar_results' = <<>>
            /\ idx' = 1
            /\ pc' = "idle"
            /\ UNCHANGED result
       ELSE /\ raised' = NoException
            /\ log' = log \o <<EvalEv(idx, out), Ev("run", idx), EvalEv(idx, out),
                                Ev("return", idx)>>
            /\ pillar_results' = Append(pillar_results, Run(_pillars[idx], out.checks))
            /\ IF idx < Len(_pillars)
               THEN idx' = idx + 1 /\ pc' = "running" /\ UNCHANGED result
               ELSE /\ UNCHANGED idx
                    /\ pc' = "idle"
                    /\ result' = ScanResult(pillar_results', target)

\* an iteration that catches the exception of a pillar, records a PillarResult
\* without checks for it and goes on
scan_run_pillar_Catch(out) ==
    /\ pc = "running"
    /\ UNCHANGED <<_pillars, target, raised>>
    /\ call' = NoCall
    /\ log' = log \o (IF out.raises THEN <<Ev("run", idx), EvalEv(idx, out)>>
                       ELSE <<Ev("run", idx), EvalEv(idx, out), Ev("return", idx)>>)
    /\ pillar_results' = Append(pillar_results, Run(_pillars[idx], out.checks))
    /\ IF idx < Len(_pillars)
       THEN idx' = idx + 1 /\ pc' = "running" /\ UNCHANGED result
       ELSE /\ UNCHANGED idx
            /\ pc' = "idle"
            /\ result' = ScanResult(pillar_results', target)

\* one iteration of [pillar.run(target_path) for pillar in self._pillars]:
\* run calls evaluate, and an exception of evaluate leaves run and scan; after
\* the last iteration scan builds and returns the ScanResult
scan_run_pillar(out) ==
    /\ pc = "running"
    /\ UNCHANGED <<_pillars, target>>
    /\ call' = NoCall
    /\ IF out.raises
       THEN /\ raised' = [type |-> out.exc, msg |-> _pillars[idx]]
            /\ log' = log \o <<Ev("run", idx), EvalEv(idx, out)>>
            /\ pillar_results' = <<>>
            /\ idx' = 1
            /\ pc' = "idle"
            /\ UNCHANGED result
       ELSE /\ raised' = NoException
            /\ log' = log \o <<Ev("run", idx), EvalEv(idx, out), Ev("return", idx)>>
            /\ pillar_results' = Append(pillar_results, Run(_pillars[idx], out.checks))
            /\ IF idx < Len(_pillars)
               THEN idx' = idx + 1 /\ pc' = "running" /\ UNCHANGED result
               ELSE /\ UNCHANGED idx
                    /\ pc' = "idle"
                    /\ result' = ScanResult(pillar_results', target)

\* the scores _determine_maturity_level is called with directly: 0.0 and the
\* scores at and just below each threshold
LevelInputs == {Rat(k, 10) : k \in {0, 399, 400, 599, 600, 799, 800, 949, 950, 1000}}

\* a direct call scanner._determine_maturity_level(score)
call_determine_maturity_level(score) ==
    /\ pc = "idle"
    /\ call' = [fn |-> "_determine_maturity_level", score |-> score,
                ret |-> _determine_maturity_level(score)]
    /\ UNCHANGED <<_pillars, pc>>
    /\ NoScan

Next ==
    \/ \E p \in PillarIds : register_pillar(p)
    \/ \E L \in BatchLists : register_pillars(L)
    \/ \E t \in Targets : scan_begin(t)
    \/ \E out \in EvaluateOutcomes : scan_run_pillar(out)
    \/ \E score \in LevelInputs : call_determine_maturity_level(score)

Spec == Init /\ [][Next]_vars

----------------------------------------------------------------------------
(* Pillar.run called directly on a pillar whose evaluate() returns a given list *)

RunCheckLists == CheckListsUpTo(MaxRunChecks)

InitRun ==
    /\ NewScanner
    /\ call \in {[fn |-> "run", pillar |-> p, evaluated |-> c, done |-> FALSE, ret |-> NoResult] :
                    p \in PillarIds, c \in RunCheckLists}

call_run ==
    /\ call.fn = "run"
    /\ ~call.done
    /\ call' = [call EXCEPT !.done = TRUE, !.ret = Run(call.pillar, call.evaluated)]
    /\ UNCHANGED <<_pillars, pc, target, idx, pillar_results, result, raised, log>>

NextRun == call_run

SpecRun == InitRun /\ [][NextRun]_vars

----------------------------------------------------------------------------
(* evaluate() of the built-in pillars called directly on a target directory *)

\* the pillars that cli.get_all_pillars instantiates, in its order
BuiltinPillars ==
    <<"Style", "Build", "Testing", "Documentation", "DevEnvironment",
      "DebuggingObservability", "Security", "TaskDiscovery">>

\* pyproject.toml: missing, text with a [tool.ruff] section, text with a
\* [tool.black] section, text with neither, a file that cannot be opened, or
\* bytes that are not UTF-8
PyprojectStates == {"absent", "linter", "formatter", "plain", "unreadable", "malformed"}

\* CONTRIBUTING.md: missing, text that mentions style, text that does not, a
\* file that cannot be opened, or bytes that are not UTF-8
ContributingStates == {"absent", "style", "plain", "unreadable", "malformed"}

\* what StylePillar looks at in a directory whose only language can be Python
Dirs ==
    [python : BOOLEAN,             \* a .py file outside the ignored directories
     py_linter : BOOLEAN,          \* ruff.toml, .ruff.toml, .flake8, .pylintrc or pylint.rc
     pyproject : PyprojectStates,
     py_formatter : BOOLEAN,       \* .black or black.toml
     precommit : BOOLEAN,          \* .pre-commit-config.yaml
     ci : BOOLEAN,                 \* one of the five CI configurations
     style_guide : BOOLEAN,        \* one of the four style guide files
     contributing : ContributingStates]

\* Path.exists of a file in one of the states above
FileExists(f) == f # "absent"

\* Path.read_text(): the exception it raises, "None" when it returns the text
read_text(f) ==
    CASE f = "unreadable" -> "PermissionError"
      [] f = "malformed" -> "UnicodeDecodeError"
      [] OTHER -> "None"

\* models.CheckResult as the dataclass constructs it: no level field
CheckResult(name, passed, message, severity) ==
    [name |-> name, passed |-> passed, message |-> message, severity |-> severity,
     metadata |-> <<>>]

\* the outcome of one check method: the CheckResult, or the exception
Returns(check) == [raises |-> FALSE, exc |-> "None", check |-> check]
Raises(exc) == [raises |-> TRUE, exc |-> exc, check |-> CheckResult("", FALSE, "", "INFO")]

_check_any_linter_config(d) ==
    LET reads == d.python /\ ~d.py_linter /\ FileExists(d.pyproject)
        found == d.python /\ (d.py_linter \/ d.pyproject = "linter")
    IN  IF reads /\ read_text(d.pyproject) # "None"
        THEN Raises(read_text(d.pyproject))
        ELSE IF found
        THEN Returns(CheckResult("Has linter configuration", TRUE,
                                 "Found linter config", "INFO"))
        ELSE Returns(CheckResult("Has linter configuration", FALSE,
                                 "No linter configuration found for detected languages",
                                 "WARNING"))

\* the formatter check reported under the name of the linter check
_check_formatter_config_LinterName(d) ==
    LET reads == d.python /\ FileExists(d.pyproject)
        found == d.python /\ (d.pyproject = "formatter" \/ d.py_formatter)
    IN  IF reads /\ read_text(d.pyproject) # "None"
        THEN Raises(read_text(d.pyproject))
        ELSE IF found
        THEN Returns(CheckResult("Has linter configuration", TRUE,
                                 "Found formatter config", "INFO"))
        ELSE Returns(CheckResult("Has linter configuration", FALSE,
                                 "No formatter configuration found for detected languages",
                                 "WARNING"))

_check_formatter_config(d) ==
    LET reads == d.python /\ FileExists(d.pyproject)
        found == d.python /\ (d.pyproject = "formatter" \/ d.py_formatter)
    IN  IF reads /\ read_text(d.pyproject) # "None"
        THEN Raises(read_text(d.pyproject))
        ELSE IF found
        THEN Returns(CheckResult("Has formatter configuration", TRUE,
                                 "Found formatter config", "INFO"))
        ELSE Returns(CheckResult("Has formatter configuration", FALSE,
                                 "No formatter configuration found for detected languages",
                                 "WARNING"))

_check_precommit_hooks(d) ==
    IF d.precommit
    THEN Returns(CheckResult("Has pre-commit hooks", TRUE,
                             "Found .pre-commit-config.yaml", "INFO"))
    ELSE Returns(CheckResult("Has pre-commit hooks", FALSE,
                             "No pre-commit configuration found", "WARNING"))

_check_ci_integration(d) ==
    IF d.ci
    THEN Returns(CheckResult("Has CI integration", TRUE, "Found CI configuration", "INFO"))
    ELSE Returns(CheckResult("Has CI integration", FALSE,
                             "No CI integration found for style checks", "WARNING"))

_check_style_guide_docs(d) ==
    IF FileExists(d.contributing) /\ read_text(d.contributing) # "None"
    THEN Raises(read_text(d.contributing))
    ELSE IF d.style_guide \/ d.contributing = "style"
    THEN Returns(CheckResult("Has style guide documentation", TRUE,
                             "Found style guide documentation", "INFO"))
    ELSE Returns(CheckResult("Has style guide documentation", FALSE,
                             "No style guide documentation found", "WARNING"))

\* the five check methods in the order StylePillar.evaluate calls them
StyleChecks(d) ==
    <<_check_any_linter_config(d), _check_formatter_config(d), _check_precommit_hooks(d),
      _check_ci_integration(d), _check_style_guide_docs(d)>>

\* the first check method that raises, 0 when none does
FirstRaising(outs) ==
    IF \E k \in 1..Len(outs) : outs[k].raises
    THEN CHOOSE k \in 1..Len(outs) : outs[k].raises /\ \A j \in 1..(k - 1) : ~outs[j].raises
    ELSE 0

\* StylePillar.evaluate: the five CheckResults, or the exception of the first
\* check method that raises
StylePillar_evaluate(d) ==
    LET outs == StyleChecks(d)
        k == FirstRaising(outs)
    IN  IF k = 0
        THEN [raises |-> FALSE, exc |-> "None", checks |-> [j \in 1..Len(outs) |-> outs[j].check]]
        ELSE [raises |-> TRUE, exc |-> outs[k].exc, checks |-> <<>>]

\* the languages BuildPillar detects, in the order of sorted(languages)
BuildLanguages == <<"go", "javascript", "python", "rust">>

\* str.capitalize of a language name
Capitalize(lang) ==
    CASE lang = "go" -> "Go"
      [] lang = "javascript" -> "Javascript"
      [] lang = "python" -> "Python"
      [] lang = "rust" -> "Rust"

\* the name literal of the build script check of a language
BuildScriptName(lang) ==
    CASE lang = "go" -> "Go build script"
      [] lang = "javascript" -> "JavaScript build script"
      [] lang = "python" -> "Python build script"
      [] lang = "rust" -> "Rust build script"

\* the detected languages, sorted
RECURSIVE SortedDetected(_, _)
SortedDetected(languages, k) ==
    IF k > Len(BuildLanguages) THEN <<>>
    ELSE (IF BuildLanguages[k] \in languages THEN <<BuildLanguages[k]>> ELSE <<>>)
         \o SortedDetected(languages, k + 1)

\* the name= arguments of the CheckResults that BuildPillar.evaluate builds
\* for a set of detected languages, in the order it builds them
BuildCheckNames(languages) ==
    LET ls == SortedDetected(languages, 1)
    IN  [k \in 1..Len(ls) |-> <<Capitalize(ls[k]), "package manager">>]
        \o [k \in 1..Len(ls) |-> <<Capitalize(ls[k]), "lock file">>]
        \o [k \in 1..Len(ls) |-> <<BuildScriptName(ls[k])>>]
        \o <<<<"Build caching">>, <<"Containerization">>, <<"Dependency automation">>,
              <<"Reproducible builds">>>>

\* evaluate of a built-in pillar.  TestingPillar returns no checks.  The six
\* other pillars build their first CheckResult with Severity.REQUIRED (or
\* OPTIONAL) and level=..., which models.py does not define.
BuiltinEvaluate(p, d) ==
    CASE p = "Style" -> StylePillar_evaluate(d)
      [] p = "Testing" -> [raises |-> FALSE, exc |-> "None", checks |-> <<>>]
      [] OTHER -> [raises |-> TRUE, exc |-> "AttributeError", checks |-> <<>>]

InitEvaluate ==
    /\ NewScanner
    /\ call \in {[fn |-> "evaluate", pillar |-> BuiltinPillars[i], dir |-> d, done |-> FALSE,
                  ret |-> [raises |-> FALSE, exc |-> "None", checks |-> <<>>]] :
                    i \in 1..Len(BuiltinPillars), d \in Dirs}

call_evaluate ==
    /\ call.fn = "evaluate"
    /\ ~call.done
    /\ call' = [call EXCEPT !.done = TRUE, !.ret = BuiltinEvaluate(call.pillar, call.dir)]
    /\ UNCHANGED <<_pillars, pc, target, idx, pillar_results, result, raised, log>>

NextEvaluate == call_evaluate

SpecEvaluate == InitEvaluate /\ [][NextEvaluate]_vars

----------------------------------------------------------------------------
(* Serialization of a ScanResult, and the --level filter of cli.main *)

MaxCliChecks == 2

\* the two pillars of the scans that main filters and prints
CliPillars == <<"p1", "p2">>

\* the level attribute of the checks that carry one
CheckLevels == {1, 2}

\* a CheckResult object with a level attribute set
WithLevel(c, l) == [f \in DOMAIN c \cup {"level"} |-> IF f = "level" THEN l ELSE c[f]]

\* the k-th check of a pillar, as the dataclass builds it
CliCheck(k, passed) ==
    CheckResult(k, passed, IF passed THEN "found" ELSE "not found",
                IF passed THEN "INFO" ELSE "WARNING")

\* a check as evaluate() can return it: a CheckResult of models.py, which has
\* no level, or one with a level attribute
CliChecks(k) ==
    {CliCheck(k, b) : b \in BOOLEAN}
    \cup {WithLevel(CliCheck(k, b), l) : b \in BOOLEAN, l \in CheckLevels}

\* the lists of at most m such checks
CliCheckListsUpTo(m) ==
    UNION {{f \in [1..n -> UNION {CliChecks(k) : k \in 1..n}] :
                \A k \in 1..n : f[k] \in CliChecks(k)} : n \in 0..m}

\* the value of the --level option: 0 when it is not given
LevelOptions == {0, 1, 6}

\* Severity.value
SeverityValue(s) ==
    CASE s = "INFO" -> "info"
      [] s = "WARNING" -> "warning"
      [] s = "ERROR" -> "error"
      [] s = "CRITICAL" -> "critical"

CheckResult_to_dict(c) ==
    [name |-> c.name, passed |-> c.passed, message |-> c.message,
     severity |-> SeverityValue(c.severity), metadata |-> c.metadata]

PillarResult_to_dict(pr) ==
    [name |-> pr.name,
     checks |-> [k \in 1..Len(pr.checks) |-> CheckResult_to_dict(pr.checks[k])],
     score |-> pr.score,
     weight |-> pr.weight,
     passed |-> Cardinality({k \in 1..Len(pr.checks) : pr.checks[k].passed}),
     failed |-> Cardinality({k \in 1..Len(pr.checks) : ~pr.checks[k].passed}),
     total |-> Len(pr.checks)]

RECURSIVE SumLen(_)
SumLen(prs) == IF prs = <<>> THEN 0 ELSE Len(Head(prs).checks) + SumLen(Tail(prs))

RECURSIVE SumPassed(_)
SumPassed(prs) == IF prs = <<>> THEN 0 ELSE PassedCount(Head(prs).checks) + SumPassed(Tail(prs))

\* f"{x:.1f}%" of x = passed / total * 100, as a number of tenths of a percent
PassRate(passed, total) ==
    IF total > 0 THEN (2 * 1000 * passed + total) \div (2 * total) ELSE 0

\* a summary that counts, as passed, the pillars that hold a passed check
ScanResult_to_dict_PassedPillars(r) ==
    LET total_checks == SumLen(r.pillars)
        passed_checks == Cardinality({k \in 1..Len(r.pillars) : PassedCount(r.pillars[k].checks) > 0})
        failed_checks == total_checks - passed_checks
    IN  [target_directory |-> r.target_directory,
         overall_score |-> r.overall_score,
         maturity_level |-> r.maturity_level,
         summary |-> [total_checks |-> total_checks,
                      passed |-> passed_checks,
                      failed |-> failed_checks,
                      pass_rate |-> PassRate(passed_checks, total_checks)],
         pillars |-> [k \in 1..Len(r.pillars) |-> PillarResult_to_dict(r.pillars[k])]]

ScanResult_to_dict(r) ==
    LET total_checks == SumLen(r.pillars)
        passed_checks == SumPassed(r.pillars)
        failed_checks == total_checks - passed_checks
    IN  [target_directory |-> r.target_directory,
         overall_score |-> r.overall_score,
         maturity_level |-> r.maturity_level,
         summary |-> [total_checks |-> total_checks,
                      passed |-> passed_checks,
                      failed |-> failed_checks,
                      pass_rate |-> PassRate(passed_checks, total_checks)],
         pillars |-> [k \in 1..Len(r.pillars) |-> PillarResult_to_dict(r.pillars[k])]]

\* c.level of a check: AttributeError when the object has no such attribute
HasLevel(c) == "level" \in DOMAIN c

\* [c for c in checks if c.level == level]
RECURSIVE LevelChecks(_, _)
LevelChecks(checks, level) ==
    IF checks = <<>> THEN <<>>
    ELSE (IF Head(checks).level = level THEN <<Head(checks)>> ELSE <<>>)
         \o LevelChecks(Tail(checks), level)

\* the first pillar result that holds a check without level, 0 when none does
FirstWithoutLevel(prs) ==
    LET bad == {k \in 1..Len(prs) : \E j \in 1..Len(prs[k].checks) : ~HasLevel(prs[k].checks[j])}
    IN  IF bad = {} THEN 0 ELSE CHOOSE k \in bad : \A j \in bad : k <= j

\* a filter that also computes the score again from the checks it keeps
FilterByLevel_Rescore(prs, level) ==
    IF level # 0 /\ 1 <= level /\ level <= 5
    THEN LET b == FirstWithoutLevel(prs)
         IN  [raises |-> b # 0,
              pillars |-> [k \in 1..Len(prs) |->
                              IF b = 0 \/ k < b
                              THEN LET kept == LevelChecks(prs[k].checks, level)
                                   IN  [prs[k] EXCEPT
                                          !.checks = kept,
                                          !.score = IF kept = <<>> THEN R(100)
                                                    ELSE Rat(100 * PassedCount(kept), Len(kept))]
                              ELSE prs[k]]]
    ELSE [raises |-> FALSE, pillars |-> prs]

\* the filter loop of main: the checks lists of the pillar results are
\* replaced one after the other, until a comprehension raises
FilterByLevel(prs, level) ==
    IF level # 0 /\ 1 <= level /\ level <= 5
    THEN LET b == FirstWithoutLevel(prs)
         IN  [raises |-> b # 0,
              pillars |-> [k \in 1..Len(prs) |->
                              IF b = 0 \/ k < b
                              THEN [prs[k] EXCEPT !.checks = LevelChecks(prs[k].checks, level)]
                              ELSE prs[k]]]
    ELSE [raises |-> FALSE, pillars |-> prs]

\* the ScanResults that scanner.scan(target_path) returns to main when the
\* pillars ps are registered
CliScanResultsOf(ps) ==
    {ScanResult([k \in 1..Len(ps) |-> Run(ps[k], cs[k])], "dir") :
        cs \in [1..Len(ps) -> CliCheckListsUpTo(MaxCliChecks)]}

\* the values of the --format option
Formats == {"text", "json", "markdown"}

\* main after scanner.scan returned: the ScanResult it holds, the ScanResult
\* as scan returned it, the --level option, and nothing printed yet
InitCli ==
    /\ NewScanner
    /\ call \in {[fn |-> "main", stage |-> "scanned", level |-> l, result |-> r,
                  scanned |-> r, printed |-> NoResult, report |-> NoResult,
                  exit_code |-> -1] :
                    l \in LevelOptions, r \in CliScanResultsOf(CliPillars)}

\* main, the level filter: an AttributeError is caught by except Exception
\* and main exits with 1
main_filter ==
    /\ call.fn = "main"
    /\ call.stage = "scanned"
    /\ LET f == FilterByLevel(call.result.pillars, call.level)
       IN  call' = [call EXCEPT !.result = [call.result EXCEPT !.pillars = f.pillars],
                                !.stage = IF f.raises THEN "exited" ELSE "filtered",
                                !.exit_code = IF f.raises THEN 1 ELSE -1]
    /\ UNCHANGED <<_pillars, pc, target, idx, pillar_results, result, raised, log>>

\* the rows of the pillar table of format_markdown_output and of
\* _print_text_report: name, level of the score, passed/total of the checks
PillarTable(prs) ==
    [k \in 1..Len(prs) |->
        [name |-> prs[k].name,
         level |-> _get_level_from_score(prs[k].score),
         passed |-> PassedCount(prs[k].checks),
         total |-> Len(prs[k].checks)]]

\* format_markdown_output(result): the pillar table, then the checks by
\* check.level, an AttributeError when a check has no such attribute
format_markdown_output(r) ==
    IF FirstWithoutLevel(r.pillars) # 0
    THEN [raises |-> TRUE, report |-> NoResult]
    ELSE [raises |-> FALSE,
          report |-> [format |-> "markdown", overall_score |-> r.overall_score,
                      maturity_level |-> r.maturity_level,
                      table |-> PillarTable(r.pillars)]]

\* what _print_text_report(result) writes to the console
TextReport(r) ==
    [format |-> "text", overall_score |-> r.overall_score,
     maturity_level |-> r.maturity_level, table |-> PillarTable(r.pillars)]

\* main when it reaches the output: the fields of call and the options that
\* the output reads
WithOptions(c, format, quiet) ==
    [f \in DOMAIN c \cup {"format", "quiet"} |->
        IF f = "format" THEN format ELSE IF f = "quiet" THEN quiet ELSE c[f]]

\* main, the output and the exit code under the options --format and --quiet:
\* JSON and Markdown are printed whatever --quiet is, the text report unless
\* --quiet; an AttributeError of format_markdown_output is caught by except
\* Exception and main exits with 1
main_output(format, quiet) ==
    /\ call.fn = "main"
    /\ call.stage = "filtered"
    /\ LET md == format_markdown_output(call.result)
           failed == format = "markdown" /\ md.raises
       IN  call' = [WithOptions(call, format, quiet) EXCEPT
                      !.printed = IF format = "json"
                                  THEN ScanResult_to_dict(call.result) ELSE NoResult,
                      !.report = IF format = "json" \/ failed THEN NoResult
                                 ELSE IF format = "markdown" THEN md.report
                                 ELSE IF ~quiet THEN TextReport(call.result)
                                 ELSE NoResult,
                      !.stage = "exited",
                      !.exit_code = IF failed THEN 1
                                    ELSE IF call.result.maturity_level >= 3 THEN 0 ELSE 1]
    /\ UNCHANGED <<_pillars, pc, target, idx, pillar_results, result, raised, log>>

NextCli ==
    \/ main_filter
    \/ \E format \in Formats, quiet \in BOOLEAN : main_output(format, quiet)

SpecCli == InitCli /\ [][NextCli]_vars

----------------------------------------------------------------------------
(* Scanner._calculate_overall_score called directly on a list of pillar      *)
(* results, and on that list with a result of weight 0 inserted              *)

\* check lists that score 100, 0 and 50
ScoreChecks ==
    {<<>>, <<[name |-> 1, passed |-> FALSE]>>,
     <<[name |-> 1, passed |-> TRUE], [name |-> 2, passed |-> FALSE]>>}

\* the lists of at most MaxPillars PillarResults that Pillar.run can build
ResultLists ==
    UNION {[1..n -> {Run(p, c) : p \in PillarIds, c \in ScoreChecks}] : n \in 0..MaxPillars}

\* prs with the pillar result pr inserted after position j
InsertAt(prs, j, pr) == SubSeq(prs, 1, j) \o <<pr>> \o SubSeq(prs, j + 1, Len(prs))

\* pillar results of weight 0 with the scores 0 and 100
ZeroWeightResults ==
    {[name |-> "Build", checks |-> <<>>, score |-> R(s), weight |-> R(0)] : s \in {0, 100}}

InitOverall ==
    /\ NewScanner
    /\ call \in {c \in [fn : {"_calculate_overall_score"}, prs : ResultLists,
                        at : 0..MaxPillars, zero : ZeroWeightResults,
                        done : {FALSE}, ret : {R(0)}, ret_inserted : {R(0)}] :
                    c.at <= Len(c.prs)}

call_calculate_overall_score ==
    /\ call.fn = "_calculate_overall_score"
    /\ ~call.done
    /\ call' = [call EXCEPT
                  !.done = TRUE,
                  !.ret = _calculate_overall_score(call.prs),
                  !.ret_inserted =
                      _calculate_overall_score(InsertAt(call.prs, call.at, call.zero))]
    /\ UNCHANGED <<_pillars, pc, target, idx, pillar_results, result, raised, log>>

NextOverall == call_calculate_overall_score

SpecOverall == InitOverall /\ [][NextOverall]_vars

----------------------------------------------------------------------------
(* cli.get_all_pillars and cli.get_pillar_by_name called directly *)

MaxCalls == 2

\* a str is a sequence of pieces: the characters of a name one by one, a
\* markup tag such as "[/x]" as one piece, a fixed part of a message as one
\* piece; str.lower changes the letters and leaves the other pieces
UpperCase ==
    <<"A", "B", "C", "D", "E", "F", "G", "H", "I", "J", "K", "L", "M",
      "N", "O", "P", "Q", "R", "S", "T", "U", "V", "W", "X", "Y", "Z">>
LowerCase ==
    <<"a", "b", "c", "d", "e", "f", "g", "h", "i", "j", "k", "l", "m",
      "n", "o", "p", "q", "r", "s", "t", "u", "v", "w", "x", "y", "z">>

\* the characters of the names and messages
Characters ==
    {UpperCase[i] : i \in 1..26} \cup {LowerCase[i] : i \in 1..26}
    \cup {" ", "&", "[/x]", "[bold]"}

\* c.lower(), c.upper() and c.swapcase() of every character
ToLower ==
    [c \in Characters |->
        IF \E i \in 1..26 : UpperCase[i] = c
        THEN LowerCase[CHOOSE i \in 1..26 : UpperCase[i] = c] ELSE c]
ToUpper ==
    [c \in Characters |->
        IF \E i \in 1..26 : LowerCase[i] = c
        THEN UpperCase[CHOOSE i \in 1..26 : LowerCase[i] = c] ELSE c]
SwapCase == [c \in Characters |-> IF ToLower[c] # c THEN ToLower[c] ELSE ToUpper[c]]

\* str.lower() and str.upper()
lower(s) == [k \in 1..Len(s) |-> ToLower[s[k]]]
upper(s) == [k \in 1..Len(s) |-> ToUpper[s[k]]]

\* the name property of each built-in pillar class
BuiltinName(cls) ==
    CASE cls = "Style" ->
            <<"S", "t", "y", "l", "e", " ", "&", " ",
              "V", "a", "l", "i", "d", "a", "t", "i", "o", "n">>
      [] cls = "Build" -> <<"B", "u", "i", "l", "d", " ", "S", "y", "s", "t", "e", "m">>
      [] cls = "Testing" -> <<"T", "e", "s", "t", "i", "n", "g">>
      [] cls = "Documentation" ->
            <<"D", "o", "c", "u", "m", "e", "n", "t", "a", "t", "i", "o", "n">>
      [] cls = "DevEnvironment" ->
            <<"D", "e", "v", " ", "E", "n", "v", "i", "r", "o", "n", "m", "e", "n", "t">>
      [] cls = "DebuggingObservability" ->
            <<"D", "e", "b", "u", "g", "g", "i", "n", "g", " ", "&", " ",
              "O", "b", "s", "e", "r", "v", "a", "b", "i", "l", "i", "t", "y">>
      [] cls = "Security" -> <<"S", "e", "c", "u", "r", "i", "t", "y">>
      [] cls = "TaskDiscovery" ->
            <<"T", "a", "s", "k", " ", "D", "i", "s", "c", "o", "v", "e", "r", "y">>

\* get_all_pillars(): eight new objects, in this order; heap is the number of
\* objects constructed before the call, an object is its class and its identity
get_all_pillars(heap) ==
    [k \in 1..Len(BuiltinPillars) |-> [cls |-> BuiltinPillars[k], id |-> heap + k]]

\* the message of the ValueError of get_pillar_by_name
UnknownPillar(name) == <<"Unknown pillar: ">> \o name

NoPillar == [cls |-> "None", id |-> 0]

\* a lookup that compares the names as they are
get_pillar_by_name_CaseSensitive(name, heap) ==
    LET pillars == get_all_pillars(heap)
        found == {k \in 1..Len(pillars) : BuiltinName(pillars[k].cls) = name}
    IN  IF found = {}
        THEN [raises |-> TRUE, exc |-> "ValueError", msg |-> UnknownPillar(name),
              pillar |-> NoPillar]
        ELSE [raises |-> FALSE, exc |-> "None", msg |-> <<>>,
              pillar |-> pillars[CHOOSE k \in found : \A j \in found : k <= j]]

\* get_pillar_by_name(name): the first pillar of get_all_pillars() whose
\* lowered name is the lowered argument
get_pillar_by_name(name, heap) ==
    LET pillars == get_all_pillars(heap)
        found == {k \in 1..Len(pillars) : lower(BuiltinName(pillars[k].cls)) = lower(name)}
    IN  IF found = {}
        THEN [raises |-> TRUE, exc |-> "ValueError", msg |-> UnknownPillar(name),
              pillar |-> NoPillar]
        ELSE [raises |-> FALSE, exc |-> "None", msg |-> <<>>,
              pillar |-> pillars[CHOOSE k \in found : \A j \in found : k <= j]]

\* s with the case of its k-th character changed
FlipAt(s, k) == [j \in 1..Len(s) |-> IF j = k THEN SwapCase[s[j]] ELSE s[j]]

\* spellings of a name: the name, all lower case, all upper case, and the
\* name with the case of one character changed
Spellings(n) == {n, lower(n), upper(n)} \cup {FlipAt(n, k) : k \in 1..Len(n)}

\* names of no pillar: the empty name, a name without its last character, a
\* name followed by a space, two other words and two names with markup
OtherNames ==
    {<<>>, <<"N", "o", "n", "e">>, <<"S", "t", "y", "l", "e">>, <<"[/x]">>, <<"[bold]", "x">>}
    \cup {SubSeq(BuiltinName(BuiltinPillars[i]), 1, Len(BuiltinName(BuiltinPillars[i])) - 1) :
            i \in 1..Len(BuiltinPillars)}
    \cup {BuiltinName(BuiltinPillars[i]) \o <<" ">> : i \in 1..Len(BuiltinPillars)}

\* the names the lookup is called with
NameArguments ==
    UNION {Spellings(BuiltinName(BuiltinPillars[i])) : i \in 1..Len(BuiltinPillars)}
    \cup OtherNames

\* the identities of the objects a call returned
ReturnedIds(c) ==
    IF c.fn = "get_all_pillars" THEN {c.ret[k].id : k \in 1..Len(c.ret)}
    ELSE IF c.fn = "get_pillar_by_name" /\ ~c.ret.raises THEN {c.ret.pillar.id}
    ELSE {}

\* no call made yet: n calls so far, heap objects constructed so far, earlier
\* holds the identities that the calls before the last one returned
InitPillars ==
    /\ NewScanner
    /\ call = [fn |-> "start", n |-> 0, heap |-> 0, earlier |-> {},
               name |-> <<>>, ret |-> NoResult]

call_get_all_pillars ==
    /\ call.fn \in {"start", "get_all_pillars", "get_pillar_by_name"}
    /\ call.n < MaxCalls
    /\ call' = [fn |-> "get_all_pillars", n |-> call.n + 1,
                heap |-> call.heap + Len(BuiltinPillars),
                earlier |-> call.earlier \cup ReturnedIds(call),
                name |-> <<>>, ret |-> get_all_pillars(call.heap)]
    /\ UNCHANGED <<_pillars, pc, target, idx, pillar_results, result, raised, log>>

call_get_pillar_by_name(name) ==
    /\ call.fn \in {"start", "get_all_pillars", "get_pillar_by_name"}
    /\ call.n < MaxCalls
    /\ call' = [fn |-> "get_pillar_by_name", n |-> call.n + 1,
                heap |-> call.heap + Len(BuiltinPillars),
                earlier |-> call.earlier \cup ReturnedIds(call),
                name |-> name, ret |-> get_pillar_by_name(name, call.heap)]
    /\ UNCHANGED <<_pillars, pc, target, idx, pillar_results, result, raised, log>>

NextPillars ==
    \/ call_get_all_pillars
    \/ \E name \in NameArguments : call_get_pillar_by_name(name)

SpecPillars == InitPillars /\ [][NextPillars]_vars

----------------------------------------------------------------------------
(* cli.main from its invocation: path validation, pillar registration, scan, *)
(* and the handling of the errors they raise                                *)

\* the markup tags that occur in the texts given to console.print
OpenTags == {"[red]", "[bold]"}
CloseTags == {"[/red]", "[/x]"}
TagName(c) ==
    CASE c \in {"[red]", "[/red]"} -> "red"
      [] c = "[bold]" -> "bold"
      [] c = "[/x]" -> "x"

\* the style stack without its topmost entry of the given name
RECURSIVE Pop(_, _)
Pop(open, name) ==
    IF Head(open) = name THEN Tail(open) ELSE <<Head(open)>> \o Pop(Tail(open), name)

\* rich's rendering of console markup: an opening tag starts a style, a
\* closing tag ends the style of its name and raises MarkupError when no such
\* style is open; shown is the text without the tags
RECURSIVE Render(_, _)
Render(text, open) ==
    IF text = <<>> THEN [raises |-> FALSE, tag |-> "", shown |-> <<>>]
    ELSE IF Head(text) \in OpenTags
    THEN Render(Tail(text), <<TagName(Head(text))>> \o open)
    ELSE IF Head(text) \in CloseTags
    THEN IF \E k \in 1..Len(open) : open[k] = TagName(Head(text))
         THEN Render(Tail(text), Pop(open, TagName(Head(text))))
         ELSE [raises |-> TRUE, tag |-> Head(text), shown |-> <<>>]
    ELSE LET rest == Render(Tail(text), open)
         IN  [rest EXCEPT !.shown = IF rest.raises THEN <<>> ELSE <<Head(text)>> \o rest.shown]

\* str(e) of the MarkupError (the position it names is left out)
MarkupErrorMessage(tag) == <<"closing tag '", tag, "' doesn't match any open tag">>

\* console.print(f"[red]{prefix}{e}[/red]")
console_print(prefix, msg) == Render(<<"[red]", prefix>> \o msg \o <<"[/red]">>, <<>>)

\* the except clauses of main's try for an exception raised in its body:
\* the message is printed and main exits with 1; a MarkupError raised by the
\* print is raised inside the except clause and leaves main
OuterHandler(exc, msg) ==
    LET p == console_print(IF exc \in {"FileNotFoundError", "ValueError"}
                           THEN "Error: " ELSE "Unexpected error: ", msg)
    IN  IF p.raises
        THEN [console |-> <<>>, exit_code |-> 1, escaped |-> "MarkupError"]
        ELSE [console |-> <<p.shown>>, exit_code |-> 1, escaped |-> "None"]

\* the except ValueError clause around get_pillar_by_name: a MarkupError
\* raised by its print is an exception in the body of main's try
InnerHandler(msg) ==
    LET p == console_print("Error: ", msg)
    IN  IF p.raises
        THEN OuterHandler("MarkupError", MarkupErrorMessage(p.tag))
        ELSE [console |-> <<p.shown>>, exit_code |-> 1, escaped |-> "None"]

\* str(e) of the exceptions scan lets through
ScanErrorMessage(exc) ==
    CASE exc = "AttributeError" -> <<"REQUIRED">>
      [] exc = "PermissionError" -> <<"[Errno 13] Permission denied: 'pyproject.toml'">>
      [] exc = "UnicodeDecodeError" -> <<"'utf-8' codec can't decode byte 0xff">>

\* the values of --pillar: not given, default names in two spellings, and
\* names of no pillar
PillarOptions ==
    {<<>>,
     BuiltinName("Style"), lower(BuiltinName("Style")),
     BuiltinName("Testing"), upper(BuiltinName("Testing")),
     BuiltinName("Build"),
     <<"N", "o", "n", "e">>, <<"[/x]">>, <<"[bold]", "x">>}

\* the target directories of the runs of main
MainDirs ==
    {d \in Dirs : /\ d.python
                  /\ ~d.py_formatter
                  /\ d.pyproject \in {"absent", "formatter", "malformed"}
                  /\ d.precommit = d.ci
                  /\ d.style_guide = d.ci
                  /\ d.contributing = "absent"}

\* Pillar.run of a built-in pillar: the run of pillar.py under the name of
\* the class and the default weight 1.0
BuiltinRun(cls, checks) == [Run("p1", checks) EXCEPT !.name = BuiltinName(cls)]

\* scanner.scan(target_path) for the registered pillars, a path that is of
\* kind t when scan tests it and holds the files of d
MainScan(registered, t, d) ==
    LET pre == Preconditions(registered, t)
        outs == [k \in 1..Len(registered) |-> BuiltinEvaluate(registered[k].cls, d)]
        bad == {k \in 1..Len(outs) : outs[k].raises}
    IN  IF pre.exc # NoException
        THEN [raises |-> TRUE, exc |-> pre.exc.type, msg |-> <<pre.exc.msg>>, result |-> NoResult]
        ELSE IF bad # {}
        THEN LET k == CHOOSE k \in bad : \A j \in bad : k <= j
             IN  [raises |-> TRUE, exc |-> outs[k].exc, msg |-> ScanErrorMessage(outs[k].exc),
                  result |-> NoResult]
        ELSE [raises |-> FALSE, exc |-> "None", msg |-> <<>>,
              result |-> ScanResult([k \in 1..Len(registered) |->
                                        BuiltinRun(registered[k].cls, outs[k].checks)], t)]

\* main is invoked with a path, --pillar and --level; error is the type of
\* the exception raised in the body of main, console what main printed with
\* console.print, escaped the type of an exception that left main
InitMain ==
    /\ NewScanner
    /\ call \in {[fn |-> "main", stage |-> "invoked", path |-> t, pillar |-> p, dir |-> d,
                  level |-> l, registered |-> <<>>, result |-> NoResult,
                  scanned |-> NoResult, printed |-> NoResult, report |-> NoResult,
                  console |-> <<>>, error |-> "None", escaped |-> "None",
                  exit_code |-> -1] :
                    t \in Targets, p \in PillarOptions, d \in MainDirs, l \in LevelOptions}

\* click.Path(exists=True, file_okay=False): a path that is not an existing
\* directory ends the command with a usage error and exit code 2
main_click ==
    /\ call.fn = "main"
    /\ call.stage = "invoked"
    /\ call' = IF PathExists(call.path) /\ PathIsDir(call.path)
               THEN [call EXCEPT !.stage = "entered"]
               ELSE [call EXCEPT !.stage = "exited", !.exit_code = 2,
                                 !.console = <<<<"Error: Invalid value for 'PATH'">>>>]
    /\ UNCHANGED <<_pillars, pc, target, idx, pillar_results, result, raised, log>>

\* main, the registration: the pillar named by --pillar, or all of them
main_register ==
    /\ call.fn = "main"
    /\ call.stage = "entered"
    /\ IF call.pillar # <<>>
       THEN LET found == get_pillar_by_name(call.pillar, 0)
                h == InnerHandler(found.msg)
            IN  call' = IF found.raises
                        THEN [call EXCEPT !.stage = "exited", !.error = found.exc,
                                          !.console = h.console,
                                          !.exit_code = h.exit_code, !.escaped = h.escaped]
                        ELSE [call EXCEPT !.stage = "registered",
                                          !.registered = <<found.pillar>>]
       ELSE call' = [call EXCEPT !.stage = "registered", !.registered = get_all_pillars(0)]
    /\ UNCHANGED <<_pillars, pc, target, idx, pillar_results, result, raised, log>>

\* main, the scan: t is what the path is when scan tests it
main_scan(t) ==
    /\ call.fn = "main"
    /\ call.stage = "registered"
    /\ LET s == MainScan(call.registered, t, call.dir)
           h == OuterHandler(s.exc, s.msg)
       IN  call' = IF s.raises
                   THEN [call EXCEPT !.stage = "exited", !.error = s.exc,
                                     !.console = h.console,
                                     !.exit_code = h.exit_code, !.escaped = h.escaped]
                   ELSE [call EXCEPT !.stage = "scanned", !.result = s.result,
                                     !.scanned = s.result]
    /\ UNCHANGED <<_pillars, pc, target, idx, pillar_results, result, raised, log>>

NextMain ==
    \/ main_click
    \/ main_register
    \/ \E t \in Targets : main_scan(t)
    \/ main_filter
    \/ \E format \in Formats, quiet \in BOOLEAN : main_output(format, quiet)

SpecMain == InitMain /\ [][NextMain]_vars

----------------------------------------------------------------------------
(* The formatters of skills/AgentReadiness/scan.py called directly on the    *)
(* dict of a scan result                                                     *)

MaxFormatTotal == 19

\* round(x) of a float x >= 0: the nearest integer, the even one of two
\* equally near
round(x) ==
    LET q == x[1] \div x[2]
        r == x[1] % x[2]
    IN  IF 2 * r < x[2] THEN q
        ELSE IF 2 * r > x[2] THEN q + 1
        ELSE IF q % 2 = 0 THEN q ELSE q + 1

\* the dict of a pillar with total checks of which passed passed, as
\* PillarResult.to_dict gives it (the checks themselves left out)
PillarDict(passed, total) ==
    [name |-> "Testing",
     score |-> IF total = 0 THEN R(100) ELSE RMul(Rat(passed, total), R(100)),
     weight |-> R(1), passed |-> passed, failed |-> total - passed, total |-> total,
     checks |-> <<>>]

\* the pillar dicts the formatters are called with: every count of passed
\* checks of every total up to the bound, and three pillars of 200 checks
\* with the scores 39.5, 59.5 and 94.5
PillarDicts ==
    {PillarDict(0, 0)}
    \cup UNION {{PillarDict(p, t) : p \in 0..t} : t \in 1..MaxFormatTotal}
    \cup {PillarDict(79, 200), PillarDict(119, 200), PillarDict(189, 200)}

\* format_pillar_natural(pillar)
format_pillar_natural(pillar) ==
    LET pillar_score == round(pillar.score)
        pillar_level == get_level_from_score(R(pillar_score))
    IN  [score |-> pillar_score, level |-> pillar_level,
         checks_passed |-> Cardinality({k \in 1..Len(pillar.checks) : pillar.checks[k].passed}),
         checks_failed |-> Cardinality({k \in 1..Len(pillar.checks) : ~pillar.checks[k].passed}),
         total_checks |-> pillar.total]

\* the pillar line of format_natural_output: name, score%, level and the
\* mark of a level of at least 3
NaturalLine(pillar) ==
    LET pillar_score == round(pillar.score)
        pillar_level == get_level_from_score(R(pillar_score))
    IN  [name |-> pillar.name, score |-> pillar_score, level |-> pillar_level,
         ok |-> pillar_level >= 3]

\* the pillar line of the skill's format_markdown_output
MarkdownLine(pillar) ==
    LET pillar_score == round(pillar.score)
        pillar_level == get_level_from_score(R(pillar_score))
    IN  [name |-> pillar.name, score |-> pillar_score, level |-> pillar_level,
         passed |-> pillar.passed, total |-> pillar.total]

\* the three formatters
Formatters == {"format_pillar_natural", "format_natural_output", "format_markdown_output"}

\* a formatter is about to be called with the dict of a pillar (inside the
\* dict of a result for the two formatters of results)
InitFormat ==
    /\ NewScanner
    /\ call \in {[fn |-> f, pillar |-> p, done |-> FALSE, ret |-> NoResult] :
                    f \in Formatters, p \in PillarDicts}

call_format ==
    /\ call.fn \in Formatters
    /\ ~call.done
    /\ call' = [call EXCEPT
                  !.done = TRUE,
                  !.ret = CASE call.fn = "format_pillar_natural" ->
                                  format_pillar_natural(call.pillar)
                            [] call.fn = "format_natural_output" -> NaturalLine(call.pillar)
                            [] call.fn = "format_markdown_output" -> MarkdownLine(call.pillar)]
    /\ UNCHANGED <<_pillars, pc, target, idx, pillar_results, result, raised, log>>

NextFormat == call_format

SpecFormat == InitFormat /\ [][NextFormat]_vars

----------------------------------------------------------------------------
(* The MCP tools of mcp_server.py: Tools.scan_repository, scan_pillar,       *)
(* get_recommendations, check_file, and call_tool                            *)

\* the path argument: None, a value that is not a str, or a str naming a
\* directory, a regular file or nothing
McpPaths == {"None", "NotAStr"} \cup Targets

\* the pillar names of the requests: two default names and a name of no pillar
McpNames == {BuiltinName("Testing"), lower(BuiltinName("Style")), <<"N", "o", "n", "e">>}

\* the pillars argument of scan_repository: None, or a list of names
McpPillarLists ==
    {<<>>} \cup {<<n>> : n \in McpNames} \cup {<<n, m>> : n \in McpNames, m \in McpNames}

\* the file_path argument of check_file: None, the repository path itself, a
\* file in it, a name of nothing, a file outside of it
McpFilePaths == {"None", ".", "a.py", "nope", "../out"}

\* what (repo_path / file_path).resolve() names, for a path of kind t
FullPath(t, file_path) ==
    CASE file_path = "." -> (IF t = "dir" THEN "dir_inside"
                             ELSE IF t = "file" THEN "file_inside" ELSE "absent")
      [] file_path = "a.py" -> (IF t = "dir" THEN "file_inside" ELSE "absent")
      [] file_path = "nope" -> "absent"
      [] file_path = "../out" -> "file_outside"

\* the JSON object of an error
ErrorJson(msg) == [error |-> msg]

\* the index of the first name of the list that names no pillar, 0 if all do
FirstUnknown(names) ==
    LET bad == {k \in 1..Len(names) : get_pillar_by_name(names[k], 0).raises}
    IN  IF bad = {} THEN 0 ELSE CHOOSE k \in bad : \A j \in bad : k <= j

\* scanner.scan(target_path) and json.dumps(result.to_dict()) inside the try
\* of a tool: the JSON of the result, or the JSON of the error the except
\* clause builds; scans counts the calls of scan
ScanToJson(registered, d, what) ==
    LET s == MainScan(registered, "dir", d)
    IN  [ret |-> IF s.raises THEN ErrorJson(what) ELSE ScanResult_to_dict(s.result),
         scans |-> 1]

\* Tools.scan_repository(path, pillars)
scan_repository(path, pillars, d) ==
    IF path = "None" THEN [ret |-> ErrorJson("path is required"), scans |-> 0]
    ELSE IF path = "NotAStr"
    THEN [ret |-> ErrorJson("Error scanning repository"), scans |-> 0]
    ELSE IF ~PathExists(path) \/ ~PathIsDir(path)
    THEN [ret |-> ErrorJson("is not a valid directory"), scans |-> 0]
    ELSE IF pillars # <<>>
    THEN IF FirstUnknown(pillars) # 0
         THEN [ret |-> ErrorJson("Unknown pillar"), scans |-> 0]
         ELSE ScanToJson([k \in 1..Len(pillars) |-> get_pillar_by_name(pillars[k], 0).pillar],
                         d, "Error scanning repository")
    ELSE ScanToJson(get_all_pillars(0), d, "Error scanning repository")

\* Tools.scan_pillar(path, pillar); an argument that is missing is <<>> here
scan_pillar(path, pillar, d) ==
    IF path = "None" \/ pillar = <<>>
    THEN [ret |-> ErrorJson("path and pillar are required"), scans |-> 0]
    ELSE IF path = "NotAStr"
    THEN [ret |-> ErrorJson("Error scanning pillar"), scans |-> 0]
    ELSE IF ~PathExists(path) \/ ~PathIsDir(path)
    THEN [ret |-> ErrorJson("is not a valid directory"), scans |-> 0]
    ELSE IF get_pillar_by_name(pillar, 0).raises
    THEN [ret |-> ErrorJson("Unknown pillar"), scans |-> 0]
    ELSE ScanToJson(<<get_pillar_by_name(pillar, 0).pillar>>, d, "Error scanning pillar")

\* the recommendation of get_recommendations for a pillar result: none
\* without failed checks; the comprehension over c.level raises
\* AttributeError when a failed check has no level
Recommendation(pr) ==
    LET failed == {k \in 1..Len(pr.checks) : ~pr.checks[k].passed}
        critical == {k \in failed : SeverityValue(pr.checks[k].severity) = "critical"}
        required == {k \in failed : SeverityValue(pr.checks[k].severity) \in {"required", "error"}}
    IN  IF failed = {} THEN [raises |-> FALSE, priority |-> "NONE"]
        ELSE IF \E k \in failed : ~HasLevel(pr.checks[k])
        THEN [raises |-> TRUE, priority |-> "NONE"]
        ELSE [raises |-> FALSE,
              priority |-> IF critical # {} THEN "CRITICAL"
                           ELSE IF required # {} THEN "HIGH"
                           ELSE IF \E k \in failed : pr.checks[k].level = 1 THEN "MEDIUM"
                           ELSE "NONE"]

\* the number of recommendations for a result, at most max_items
RecommendationCount(r, max_items) ==
    LET n == Cardinality({k \in 1..Len(r.pillars) : Recommendation(r.pillars[k]).priority # "NONE"})
    IN  IF n < max_items THEN n ELSE max_items

\* the JSON get_recommendations returns for the result of its scan
RecommendationsJson(r, max_items) ==
    IF \E k \in 1..Len(r.pillars) : Recommendation(r.pillars[k]).raises
    THEN ErrorJson("Error getting recommendations")
    ELSE [recommendations |-> RecommendationCount(r, max_items),
          total_count |-> RecommendationCount(r, max_items)]

\* Tools.get_recommendations(path, max_items)
get_recommendations(path, max_items, d) ==
    IF path = "None" THEN [ret |-> ErrorJson("path is required"), scans |-> 0]
    ELSE IF path = "NotAStr"
    THEN [ret |-> ErrorJson("Error getting recommendations"), scans |-> 0]
    ELSE IF ~PathExists(path) \/ ~PathIsDir(path)
    THEN [ret |-> ErrorJson("is not a valid directory"), scans |-> 0]
    ELSE IF MainScan(get_all_pillars(0), "dir", d).raises
    THEN [ret |-> ErrorJson("Error getting recommendations"), scans |-> 1]
    ELSE [ret |-> RecommendationsJson(MainScan(get_all_pillars(0), "dir", d).result, max_items),
          scans |-> 1]

\* Tools.check_file(path, file_path, pillar): the path is not tested for
\* being a directory
check_file(path, file_path, pillar) ==
    IF path = "None" \/ file_path = "None" \/ pillar = <<>>
    THEN [ret |-> ErrorJson("path, file_path, and pillar are required"), scans |-> 0]
    ELSE IF path = "NotAStr"
    THEN [ret |-> ErrorJson("Error checking file"), scans |-> 0]
    ELSE IF FullPath(path, file_path) = "absent"
    THEN [ret |-> ErrorJson("File not found"), scans |-> 0]
    ELSE IF get_pillar_by_name(pillar, 0).raises
    THEN [ret |-> ErrorJson("Unknown pillar"), scans |-> 0]
    ELSE IF FullPath(path, file_path) = "dir_inside"
    THEN [ret |-> ErrorJson("Error reading file"), scans |-> 0]
    ELSE IF FullPath(path, file_path) = "file_outside"
    THEN [ret |-> ErrorJson("Error checking file"), scans |-> 0]
    ELSE [ret |-> [file_path |-> file_path, pillar |-> pillar, file_size |-> 1, lines |-> 1,
                   patterns_detected |-> <<>>],
          scans |-> 0]

\* the tool names call_tool is called with
ToolNames == {"scan_repository", "scan_pillar", "get_recommendations", "check_file", "other"}

\* call_tool(name, arguments): the text of the TextContent it returns
call_tool(name, a) ==
    CASE name = "scan_repository" -> scan_repository(a.path, a.pillars, a.dir)
      [] name = "scan_pillar" -> scan_pillar(a.path, a.pillar, a.dir)
      [] name = "get_recommendations" -> get_recommendations(a.path, a.max_items, a.dir)
      [] name = "check_file" -> check_file(a.path, a.file_path, a.pillar)
      [] OTHER -> [ret |-> ErrorJson("Unknown tool"), scans |-> 0]

\* the arguments of a request; an argument the request leaves out is None
\* (no pillars: the empty list, no pillar: the empty name), max_items is 5
McpArguments ==
    {[path |-> t, pillars |-> ps, pillar |-> <<>>, file_path |-> "None", max_items |-> 5,
      dir |-> d] : t \in McpPaths, ps \in McpPillarLists, d \in MainDirs}
    \cup {[path |-> t, pillars |-> <<>>, pillar |-> p, file_path |-> f, max_items |-> 5,
           dir |-> d] : t \in McpPaths, p \in McpNames \cup {<<>>}, f \in McpFilePaths,
                        d \in {d \in MainDirs : d.pyproject = "absent" /\ ~d.py_linter}}

\* a request is about to be handled
InitMcp ==
    /\ NewScanner
    /\ call \in {[fn |-> "call_tool", name |-> n, arguments |-> a, done |-> FALSE,
                  ret |-> NoResult, scans |-> 0] : n \in ToolNames, a \in McpArguments}

call_call_tool ==
    /\ call.fn = "call_tool"
    /\ ~call.done
    /\ LET out == call_tool(call.name, call.arguments)
       IN  call' = [call EXCEPT !.done = TRUE, !.ret = out.ret, !.scans = out.scans]
    /\ UNCHANGED <<_pillars, pc, target, idx, pillar_results, result, raised, log>>

NextMcp == call_call_tool

SpecMcp == InitMcp /\ [][NextMcp]_vars

----------------------------------------------------------------------------
(* Properties *)

RECURSIVE CountPassed(_)
CountPassed(checks) ==
    IF checks = <<>> THEN 0
    ELSE (IF Head(checks).passed THEN 1 ELSE 0) + CountPassed(Tail(checks))

Returned == pc = "idle" /\ result # NoResult

RunReturned == call.fn = "run" /\ call.done

\* C1: the PillarResult built by Pillar.run carries the checks evaluate()
\* returned, in that order, the pillar's name and weight, and a score of
\* exactly 100 when there are no checks and 100 * passed / total otherwise
\* (one passed check of two gives 50).
C1_RunScore ==
    RunReturned =>
        LET pr == call.ret
            ret == call.evaluated
            total == Len(ret)
            passed == CountPassed(ret)
        IN  /\ pr.checks = ret
            /\ pr.name = PillarName(call.pillar)
            /\ pr.weight = PillarWeight(call.pillar)
            /\ total = 0 => pr.score = <<100, 1>>
            /\ total > 0 => pr.score[2] > 0 /\ pr.score[1] * total = 100 * passed * pr.score[2]
            /\ (total = 2 /\ passed = 1) => pr.score = <<50, 1>>

\* run on a pillar of default weight whose two checks passed and failed
C1_Witness ==
    /\ RunReturned
    /\ Len(call.evaluated) = 2
    /\ call.evaluated[1].passed /\ ~call.evaluated[2].passed
    /\ call.ret.weight = R(1)
    /\ call.ret.score = <<50, 1>>

\* sums over the first k pillar results, as integers over a common denominator
RECURSIVE SigmaW(_, _)
SigmaW(prs, k) == IF k = 0 THEN R(0) ELSE RAdd(prs[k].weight, SigmaW(prs, k - 1))

RECURSIVE SigmaSW(_, _)
SigmaSW(prs, k) ==
    IF k = 0 THEN R(0) ELSE RAdd(RMul(prs[k].score, prs[k].weight), SigmaSW(prs, k - 1))

\* C2: the overall_score of a returned ScanResult whose weights do not sum
\* to 0 is Sigma(score * weight) / Sigma(weight); weights 1 and 3 with scores
\* 100 and 0 give 25.
C2_WeightedAverage ==
    Returned =>
        LET prs == result.pillars
            W == SigmaW(prs, Len(prs))
            S == SigmaSW(prs, Len(prs))
        IN  /\ W # R(0) => RMul(result.overall_score, W) = S
            /\ (/\ Len(prs) = 2
                /\ prs[1].weight = R(1) /\ prs[2].weight = R(3)
                /\ prs[1].score = R(100) /\ prs[2].score = R(0))
               => result.overall_score = R(25)

C2_Witness ==
    /\ Returned
    /\ Len(result.pillars) = 2
    /\ result.pillars[1].weight = R(1) /\ result.pillars[2].weight = R(3)
    /\ result.pillars[1].score = R(100) /\ result.pillars[2].score = R(0)
    /\ result.overall_score = R(25)

\* the threshold table of the maturity levels, on a score n/d with d > 0
TableLevel(score) ==
    CASE score[1] < 40 * score[2] -> 1
      [] 40 * score[2] <= score[1] /\ score[1] < 60 * score[2] -> 2
      [] 60 * score[2] <= score[1] /\ score[1] < 80 * score[2] -> 3
      [] 80 * score[2] <= score[1] /\ score[1] < 95 * score[2] -> 4
      [] 95 * score[2] <= score[1] -> 5

\* the scores 0.0, 0.1, ... 100.0
Tenths == 0..1000

\* _determine_maturity_level on every tenth in [0, 100]: the table, the nine
\* boundary values, and no decrease from one tenth to the next
LevelTableOnTenths ==
    /\ \A k \in Tenths :
          /\ _determine_maturity_level(Rat(k, 10)) = TableLevel(<<k, 10>>)
          /\ k > 0 => _determine_maturity_level(Rat(k - 1, 10))
                          <= _determine_maturity_level(Rat(k, 10))
    /\ _determine_maturity_level(Rat(399, 10)) = 1
    /\ _determine_maturity_level(Rat(400, 10)) = 2
    /\ _determine_maturity_level(Rat(599, 10)) = 2
    /\ _determine_maturity_level(Rat(600, 10)) = 3
    /\ _determine_maturity_level(Rat(799, 10)) = 3
    /\ _determine_maturity_level(Rat(800, 10)) = 4
    /\ _determine_maturity_level(Rat(949, 10)) = 4
    /\ _determine_maturity_level(Rat(950, 10)) = 5
    /\ _determine_maturity_level(Rat(1000, 10)) = 5

LevelReturned == call.fn = "_determine_maturity_level"

\* C3: the maturity_level of a returned ScanResult, and the level returned by
\* _determine_maturity_level for a score, is in 1..5 and is the level of the
\* interval [0,40), [40,60), [60,80), [80,95), [95,100] that holds the score,
\* lower bounds inclusive; the function is non-decreasing and maps 39.9, 40.0,
\* 59.9, 60.0, 79.9, 80.0, 94.9, 95.0, 100.0 to 1, 2, 2, 3, 3, 4, 4, 5, 5.
C3_MaturityLevel ==
    /\ Returned =>
          /\ result.maturity_level \in 1..5
          /\ (RLeq(R(0), result.overall_score) /\ RLeq(result.overall_score, R(100)))
                => result.maturity_level = TableLevel(result.overall_score)
    /\ LevelReturned =>
          /\ call.ret \in 1..5
          /\ call.ret = TableLevel(call.score)
    /\ LevelTableOnTenths

\* the level of the boundary score 40.0
C3_Witness ==
    /\ LevelReturned
    /\ call.score = R(40)
    /\ call.ret = 2
\* C4: the score of every PillarResult and the overall_score of every returned
\* ScanResult lie in [0, 100], whatever the weights of the pillars are.
C4_ScoreBounds ==
    /\ \A k \in 1..Len(pillar_results) :
          RLeq(R(0), pillar_results[k].score) /\ RLeq(pillar_results[k].score, R(100))
    /\ Returned =>
          RLeq(R(0), result.overall_score) /\ RLeq(result.overall_score, R(100))

\* the last call was a scan and it has ended
ScanEnded == pc = "idle" /\ log # <<>>

LogOps == {log[j].op : j \in 1..Len(log)}

\* C5: a scan of an empty registry raises the no-pillars ValueError for every
\* kind of target, without a test of the path, a pillar run or a ScanResult.
C5_EmptyRegistry ==
    (ScanEnded /\ _pillars = <<>>) =>
        /\ raised = [type |-> "ValueError", msg |-> "No pillars registered"]
        /\ result = NoResult
        /\ LogOps = {"registry"}

C5_Witness ==
    /\ ScanEnded /\ _pillars = <<>> /\ target = "missing"
    /\ raised.type = "ValueError"

\* C6: a scan of a path that does not exist, with a pillar registered, raises
\* FileNotFoundError and no pillar's run or evaluate is called.
C6_TargetNotFound ==
    (ScanEnded /\ _pillars # <<>> /\ target = "missing") =>
        /\ raised = [type |-> "FileNotFoundError", msg |-> "Target directory does not exist"]
        /\ result = NoResult
        /\ LogOps \cap {"run", "evaluate", "return"} = {}

C6_Witness ==
    /\ ScanEnded /\ _pillars # <<>> /\ target = "missing"
    /\ raised.type = "FileNotFoundError"

\* C7: a scan of a path that exists and is not a directory, with a pillar
\* registered, raises the not-a-directory ValueError before any pillar runs.
C7_NotADirectory ==
    (ScanEnded /\ _pillars # <<>> /\ target = "file") =>
        /\ raised = [type |-> "ValueError", msg |-> "Target path is not a directory"]
        /\ result = NoResult
        /\ "is_dir" \in LogOps
        /\ LogOps \cap {"run", "evaluate", "return"} = {}

C7_Witness ==
    /\ ScanEnded /\ _pillars # <<>> /\ target = "file"
    /\ raised.msg = "Target path is not a directory"

\* C8: a returned ScanResult has one PillarResult per registry entry, in
\* registration order, each with the name and weight of the pillar at its
\* position, also when a pillar or a pillar name is registered twice.
C8_OnePerRegistryEntry ==
    Returned =>
        /\ Len(result.pillars) = Len(_pillars)
        /\ \A k \in 1..Len(_pillars) :
              /\ result.pillars[k].name = PillarName(_pillars[k])
              /\ result.pillars[k].weight = PillarWeight(_pillars[k])

\* two pillars of one name and different weights, both in the result
C8_Witness ==
    /\ Returned
    /\ _pillars = <<"p2", "p1">>
    /\ Len(result.pillars) = 2
    /\ result.pillars[1].name = result.pillars[2].name
    /\ result.pillars[1].weight = R(3)
    /\ result.pillars[2].weight = R(1)

\* the positions of log that hold the call op for registry position i
Pos(op, i) == {j \in 1..Len(log) : log[j].op = op /\ log[j].i = i}
The(S) == CHOOSE j \in S : TRUE

\* C9: in a scan that returns, run and evaluate are each called once per
\* registry entry, evaluate inside its run, the runs one after the other in
\* registration order, and the three precondition tests come before the
\* first run.
C9_SequentialRuns ==
    Returned =>
        /\ Cardinality(Pos("registry", 0)) = 1
        /\ Cardinality(Pos("exists", 0)) = 1
        /\ Cardinality(Pos("is_dir", 0)) = 1
        /\ The(Pos("registry", 0)) < The(Pos("exists", 0))
        /\ The(Pos("exists", 0)) < The(Pos("is_dir", 0))
        /\ \A j \in 1..Len(log) :
              log[j].op \in {"run", "evaluate", "return"} =>
                  /\ log[j].i \in 1..Len(_pillars)
                  /\ The(Pos("is_dir", 0)) < j
        /\ \A i \in 1..Len(_pillars) :
              /\ Cardinality(Pos("run", i)) = 1
              /\ Cardinality(Pos("evaluate", i)) = 1
              /\ Cardinality(Pos("return", i)) = 1
              /\ The(Pos("run", i)) < The(Pos("evaluate", i))
              /\ The(Pos("evaluate", i)) < The(Pos("return", i))
              /\ i < Len(_pillars) => The(Pos("return", i)) < The(Pos("run", i + 1))

C9_Witness ==
    /\ Returned
    /\ Len(_pillars) = MaxPillars
    /\ Len(log) = 3 + 3 * MaxPillars

\* C10: when evaluate raises, nothing more is called, scan ends with that
\* exception of that pillar and without a ScanResult.
C10_ExceptionPropagates ==
    \A j \in 1..Len(log) :
        (log[j].op = "evaluate" /\ log[j].out.raises) =>
            /\ j = Len(log)
            /\ pc = "idle"
            /\ raised = [type |-> log[j].out.exc, msg |-> _pillars[log[j].i]]
            /\ result = NoResult

\* the first of several pillars raised
C10_Witness ==
    /\ ScanEnded
    /\ Len(_pillars) > 1
    /\ log[Len(log)].op = "evaluate"
    /\ log[Len(log)].i = 1
    /\ log[Len(log)].out.raises
    /\ raised.type = "PermissionError"

EvaluateReturned == call.fn = "evaluate" /\ call.done

\* the file states in which read_text raises
Unreadable == {"unreadable", "malformed"}

\* C11: when a file that a check of a built-in pillar reads is unreadable or
\* malformed, evaluate() does not raise: it returns all its checks, and the
\* check that reads the file is a failed one.  Stated for StylePillar, whose
\* linter and formatter checks read pyproject.toml of a Python project and
\* whose style guide check reads CONTRIBUTING.md.
C11_UnreadableFileDegradesCheck ==
    (EvaluateReturned /\ call.pillar = "Style") =>
        LET d == call.dir
            ret == call.ret
        IN  /\ (d.python /\ d.pyproject \in Unreadable) =>
                  /\ ~ret.raises
                  /\ Len(ret.checks) = 5
                  /\ ~ret.checks[2].passed \/ d.py_formatter
            /\ d.contributing \in Unreadable =>
                  /\ ~ret.raises
                  /\ Len(ret.checks) = 5
                  /\ ~ret.checks[5].passed \/ d.style_guide

\* register_pillar called on each element of L in order
RECURSIVE RegisterEach(_, _)
RegisterEach(registry, L) ==
    IF L = <<>> THEN registry ELSE RegisterEach(Append(registry, Head(L)), Tail(L))

IsPrefix(s, t) == Len(s) <= Len(t) /\ SubSeq(t, 1, Len(s)) = s

\* C12: every step keeps the registry as a prefix of the new registry (a
\* registration is a step between idle states that leaves no scan outcome);
\* register_pillar(p) adds p at the end, and register_pillars(L) leaves the
\* registry that register_pillar on each element of L in order would leave,
\* so the registry is the concatenation, in call order, of all that was
\* registered, duplicates included.
C12_RegistryIsConcatenation ==
    [][/\ IsPrefix(_pillars, _pillars')
       /\ (pc = "idle" /\ pc' = "idle" /\ log' = <<>> /\ call' = NoCall) =>
             /\ \A p \in PillarIds : register_pillar(p) => _pillars' = _pillars \o <<p>>
             /\ \A L \in BatchLists :
                   register_pillars(L) => _pillars' = RegisterEach(_pillars, L)]_vars

\* a pillar registered twice is twice in the registry
C12_Witness ==
    /\ pc = "idle"
    /\ Len(_pillars) = MaxPillars
    /\ _pillars[1] = "p2" /\ _pillars[2] = "p2"

\* a step of scan
ScanStep ==
    \/ \E t \in Targets : scan_begin(t)
    \/ \E out \in EvaluateOutcomes : scan_run_pillar(out)

\* the check lists that the evaluate calls recorded in lg returned, in call order
RECURSIVE Evaluated(_)
Evaluated(lg) ==
    IF lg = <<>> THEN <<>>
    ELSE IF Head(lg).op = "evaluate" THEN <<Head(lg).out.checks>> \o Evaluated(Tail(lg))
    ELSE Evaluated(Tail(lg))

\* the pillar results that follow from a registry and from what the evaluate
\* of each entry returned
ResultsFrom(registry, evaluated) ==
    [k \in 1..Len(registry) |->
        [name |-> PillarName(registry[k]),
         weight |-> PillarWeight(registry[k]),
         checks |-> evaluated[k],
         score |-> IF Len(evaluated[k]) = 0 THEN R(100)
                   ELSE Rat(100 * CountPassed(evaluated[k]), Len(evaluated[k]))]]

\* C13: no step of scan (each records a call in log) changes the registry, whether the scan returns, fails
\* a precondition or ends with the exception of a pillar; and the pillar
\* results of a scan that returns are determined, position by position, by
\* the registry and by what each evaluate returned, so two scans by one
\* Scanner in which the evaluates return the same lists give the same names,
\* weights and scores in registration order.
C13_ScanKeepsRegistry ==
    [][(log' # <<>> /\ ScanStep) =>
          /\ _pillars' = _pillars
          /\ result' # NoResult =>
                result'.pillars = ResultsFrom(_pillars, Evaluated(log'))]_vars

\* a scan that the last pillar ended with an exception, the registry full
C13_Witness ==
    /\ ScanEnded
    /\ Len(_pillars) = MaxPillars
    /\ raised.type = "AttributeError"
    /\ log[Len(log)].op = "evaluate"
    /\ log[Len(log)].i = MaxPillars

\* all pillar results carry the weight of the first
SameWeights(prs) == \A k \in 1..Len(prs) : prs[k].weight = prs[1].weight

\* the sum of the scores of the first k pillar results
RECURSIVE SigmaS(_, _)
SigmaS(prs, k) == IF k = 0 THEN R(0) ELSE RAdd(prs[k].score, SigmaS(prs, k - 1))

\* overall_score is the arithmetic mean of the pillar scores
IsMean(r) == RMul(r.overall_score, R(Len(r.pillars))) = SigmaS(r.pillars, Len(r.pillars))

\* C14 as stated: in a returned ScanResult whose pillar results all have the
\* same weight, whatever its value, overall_score is the unweighted mean of
\* the pillar scores.
C14_EqualWeightsMean ==
    (Returned /\ SameWeights(result.pillars)) => IsMean(result)

\* C14 amended: in a returned ScanResult whose pillar results all have the
\* same weight and that weight is not 0, overall_score is the unweighted mean
\* of the pillar scores; when the common weight is 0, overall_score is 0.0.
C14_EqualNonZeroWeightsMean ==
    (Returned /\ SameWeights(result.pillars)) =>
        IF result.pillars[1].weight # R(0)
        THEN IsMean(result)
        ELSE result.overall_score = R(0)

\* two pillars of weight 3.0 with scores 100 and 0: overall 50
C14_Witness ==
    /\ Returned
    /\ Len(result.pillars) = 2
    /\ result.pillars[1].weight = R(3) /\ result.pillars[2].weight = R(3)
    /\ result.pillars[1].score = R(100) /\ result.pillars[2].score = R(0)
    /\ result.overall_score = R(50)

OverallReturned == call.fn = "_calculate_overall_score" /\ call.done

\* C15: for a list of pillar results whose weights do not sum to 0, the
\* overall score of the list with a pillar result of weight 0, of score 0 or
\* 100, inserted at any position is the overall score of the list.
C15_ZeroWeightExcluded ==
    OverallReturned =>
        (SigmaW(call.prs, Len(call.prs)) # R(0) => call.ret_inserted = call.ret)

\* a result of weight 0 and score 100 inserted between results of weight 1
\* and 3 that scored 100 and 0: overall 25 before and after
C15_Witness ==
    /\ OverallReturned
    /\ Len(call.prs) = 2
    /\ call.at = 1
    /\ call.zero.score = R(100)
    /\ call.prs[1].weight = R(1) /\ call.prs[1].score = R(100)
    /\ call.prs[2].weight = R(3) /\ call.prs[2].score = R(0)
    /\ call.ret = R(25)
    /\ call.ret_inserted = R(25)

\* C16: _calculate_overall_score of no pillar results is 0.0, and a returned
\* ScanResult whose weights sum to 0 (every weight 0, or weights that cancel)
\* has overall_score 0.0 and maturity_level 1.
C16_ZeroTotalWeight ==
    /\ _calculate_overall_score(<<>>) = R(0)
    /\ Returned =>
          (SigmaW(result.pillars, Len(result.pillars)) = R(0) =>
              /\ result.overall_score = R(0)
              /\ result.maturity_level = 1)

\* a scan of pillars of weight 0 whose checks all passed
C16_Witness ==
    /\ Returned
    /\ \A k \in 1..Len(result.pillars) :
          result.pillars[k].weight = R(0) /\ result.pillars[k].score = R(100)
    /\ result.overall_score = R(0)
    /\ result.maturity_level = 1

\* the sum of field f over the serialized pillars
RECURSIVE SumField(_, _)
SumField(ds, f) == IF ds = <<>> THEN 0 ELSE Head(ds)[f] + SumField(Tail(ds), f)

\* C17: the mapping to_dict gives for the ScanResult that main holds, as scan
\* returned it and after the level filter replaced check lists: the totals of
\* the pillars add up to summary.total_checks, their passed counts to
\* summary.passed, and summary.failed is total_checks - passed and the sum of
\* their failed counts.
C17_SummaryAddsUp ==
    call.fn = "main" =>
        LET d == ScanResult_to_dict(call.result)
        IN  /\ SumField(d.pillars, "total") = d.summary.total_checks
            /\ SumField(d.pillars, "passed") = d.summary.passed
            /\ d.summary.failed = d.summary.total_checks - d.summary.passed
            /\ d.summary.failed = SumField(d.pillars, "failed")
            /\ call.printed # NoResult => call.printed = d

\* a printed result from which the filter removed checks in both pillars and
\* that keeps a passed and a failed check
C17_Witness ==
    /\ call.fn = "main"
    /\ call.printed # NoResult
    /\ \A k \in 1..Len(CliPillars) :
          Len(call.result.pillars[k].checks) < Len(call.scanned.pillars[k].checks)
    /\ call.printed.summary.passed = 1
    /\ call.printed.summary.failed = 1

\* the Severity member with a given value
SeverityOfValue(v) ==
    CASE v = "info" -> "INFO"
      [] v = "warning" -> "WARNING"
      [] v = "error" -> "ERROR"
      [] v = "critical" -> "CRITICAL"

\* the ScanResult that can be rebuilt from a serialized mapping: every key
\* that to_dict writes is read back
FromDict(d) ==
    [pillars |->
        [k \in 1..Len(d.pillars) |->
            [name |-> d.pillars[k].name,
             checks |-> [j \in 1..Len(d.pillars[k].checks) |->
                            LET c == d.pillars[k].checks[j]
                            IN  CheckResult(c.name, c.passed, c.message,
                                            SeverityOfValue(c.severity))],
             score |-> d.pillars[k].score,
             weight |-> d.pillars[k].weight]],
     overall_score |-> d.overall_score,
     maturity_level |-> d.maturity_level,
     target_directory |-> d.target_directory]

\* C18: the ScanResult that scan returned can be recovered from the mapping
\* to_dict gives for it, field by field, the name, passed, message, severity,
\* level and metadata of every check included.
C18_LosslessSerialization ==
    call.fn = "main" => FromDict(ScanResult_to_dict(call.scanned)) = call.scanned

\* score is the percentage of the checks of the list that passed
IsPercentage(score, checks) ==
    IF Len(checks) = 0 THEN score = R(100)
    ELSE RMul(score, R(Len(checks))) = R(100 * CountPassed(checks))

C20_ChecksCarryLevel ==
    (EvaluateReturned /\ ~call.ret.raises) =>
        \A k \in 1..Len(call.ret.checks) :
            LET c == call.ret.checks[k]
            IN  /\ HasLevel(c)
                /\ c.level \in 1..5
                /\ c.name # ""
                /\ c.message # ""

\* the elements of a sequence are pairwise distinct
Distinct(s) == \A i, j \in 1..Len(s) : s[i] = s[j] => i = j

\* the names BuildPillar builds for each set of detected languages: three per
\* language and four for the repository, pairwise distinct
BuildNamesDistinct ==
    \A languages \in SUBSET {BuildLanguages[k] : k \in 1..Len(BuildLanguages)} :
        /\ Distinct(BuildCheckNames(languages))
        /\ Len(BuildCheckNames(languages)) = 3 * Cardinality(languages) + 4

\* C21: the names of the CheckResults that one evaluate() of a built-in
\* pillar returns are pairwise distinct, and so are the names that
\* BuildPillar gives its checks for every set of detected languages.
C21_NamesUniqueInPillar ==
    /\ (EvaluateReturned /\ ~call.ret.raises) =>
          Distinct([k \in 1..Len(call.ret.checks) |-> call.ret.checks[k].name])
    /\ BuildNamesDistinct

\* StylePillar returned its five checks, the first passed and the second failed
C21_Witness ==
    /\ EvaluateReturned
    /\ call.pillar = "Style"
    /\ ~call.ret.raises
    /\ Len(call.ret.checks) = 5
    /\ call.ret.checks[1].passed /\ ~call.ret.checks[2].passed

\* the three functions agree on a score
SameLevel(score) ==
    /\ _get_level_from_score(score) = _determine_maturity_level(score)
    /\ get_level_from_score(score) = _determine_maturity_level(score)

\* the three functions agree on every tenth in [0, 100]
LevelsAgreeOnTenths == \A k \in Tenths : SameLevel(Rat(k, 10))

\* C22: for every score, Scanner._determine_maturity_level, the CLI's
\* _get_level_from_score and the skill's get_level_from_score return the same
\* level: on the score of a direct call, on the overall_score of a returned
\* ScanResult, on every pillar score of a scan, and on every tenth in [0, 100].
C22_SameThresholdsEverywhere ==
    /\ LevelReturned =>
          /\ _get_level_from_score(call.score) = call.ret
          /\ get_level_from_score(call.score) = call.ret
    /\ Returned =>
          /\ _get_level_from_score(result.overall_score) = result.maturity_level
          /\ get_level_from_score(result.overall_score) = result.maturity_level
    /\ \A k \in 1..Len(pillar_results) : SameLevel(pillar_results[k].score)
    /\ LevelsAgreeOnTenths

\* the three functions on the boundary score 60.0
C22_Witness ==
    /\ LevelReturned
    /\ call.score = R(60)
    /\ call.ret = 3
    /\ _get_level_from_score(call.score) = 3
    /\ get_level_from_score(call.score) = 3

\* main has ended
Exited == call.fn = "main" /\ call.stage = "exited"

\* C23: after a scan that completed, main exits with code 0 exactly when the
\* maturity_level of the result is at least 3 and with code 1 otherwise,
\* whatever the --format, --level and --quiet options are.
C23_ExitCodeFollowsLevel ==
    Exited => (call.exit_code = 0 <=> call.result.maturity_level >= 3)

\* two characters are one letter in either case
SameLetter(c, d) ==
    \/ c = d
    \/ \E i \in 1..Len(UpperCase) : {c, d} = {UpperCase[i], LowerCase[i]}

\* two names are equal ignoring letter case
SameIgnoringCase(a, b) ==
    /\ Len(a) = Len(b)
    /\ \A k \in 1..Len(a) : SameLetter(a[k], b[k])

\* the default pillars whose name is the given name, ignoring letter case
Named(name) ==
    {i \in 1..Len(BuiltinPillars) : SameIgnoringCase(BuiltinName(BuiltinPillars[i]), name)}

EndedInError ==
    /\ Exited
    /\ "console" \in DOMAIN call
    /\ call.scanned = NoResult

\* C24: a run of main that ends in an error (a path click rejects, an unknown
\* --pillar name, an error raised by scan() or inside a pillar) has printed a
\* message, exits with a code other than 0, lets no exception leave main and
\* has printed no report.
C24_ErrorsAreReported ==
    EndedInError =>
        /\ call.console # <<>>
        /\ call.exit_code # 0
        /\ call.escaped = "None"
        /\ call.printed = NoResult
        /\ call.report = NoResult

\* the checks of a list whose level is L, in their order
RECURSIVE OfLevel(_, _)
OfLevel(checks, L) ==
    IF checks = <<>> THEN <<>>
    ELSE (IF HasLevel(Head(checks)) /\ Head(checks).level = L THEN <<Head(checks)>> ELSE <<>>)
         \o OfLevel(Tail(checks), L)

\* the exit code of a run without --level
ExitCodeOf(r) == IF r.maturity_level >= 3 THEN 0 ELSE 1

\* C25: once main is past its level filter, with --level L and 1 <= L <= 5
\* the checks of each PillarResult are exactly the checks scan returned for
\* it whose level is L, in their order and unchanged, the name, score and
\* weight of each pillar and overall_score, maturity_level and
\* target_directory are as scan returned them, and the exit code is the one
\* of the maturity level; with L outside 1..5 the result is as scan returned
\* it and the exit code is 0 or 1.
C25_LevelFilterFrame ==
    (call.fn = "main" /\ call.stage \in {"filtered", "exited"}) =>
        IF 1 <= call.level /\ call.level <= 5
        THEN /\ \A k \in 1..Len(call.scanned.pillars) :
                   call.result.pillars[k] =
                      [call.scanned.pillars[k] EXCEPT
                          !.checks = OfLevel(call.scanned.pillars[k].checks, call.level)]
             /\ Len(call.result.pillars) = Len(call.scanned.pillars)
             /\ call.result.overall_score = call.scanned.overall_score
             /\ call.result.maturity_level = call.scanned.maturity_level
             /\ call.result.target_directory = call.scanned.target_directory
             /\ Exited => call.exit_code = ExitCodeOf(call.scanned)
        ELSE /\ call.result = call.scanned
             /\ Exited => call.exit_code \in {0, 1}

FormatReturned == call.fn \in Formatters /\ call.done

\* C27: the level that format_pillar_natural, format_natural_output and
\* format_markdown_output report for a pillar is the level of the threshold
\* function for the score of that pillar, which is the level of the Scanner's
\* table for that score, for integer and non-integer scores in [0, 100].
C27_FormatterLevelOfScore ==
    FormatReturned =>
        /\ call.ret.level = get_level_from_score(call.pillar.score)
        /\ call.ret.level = _determine_maturity_level(call.pillar.score)
        /\ call.ret.level = TableLevel(call.pillar.score)

\* C28: a run of main with --quiet that got a ScanResult has printed no
\* report when it ends, whatever --format is: no JSON, no Markdown, no text.
C28_QuietPrintsNothing ==
    (Exited /\ "quiet" \in DOMAIN call /\ call.quiet) =>
        /\ call.printed = NoResult
        /\ call.report = NoResult

\* main was run without --pillar, and scan has ended on a target that was an
\* existing directory when scan tested it
DefaultScanEnded ==
    /\ call.fn = "main"
    /\ "registered" \in DOMAIN call
    /\ Len(call.registered) = Len(BuiltinPillars)
    /\ call.stage \in {"scanned", "filtered", "exited"}
    /\ call.error \notin {"FileNotFoundError", "ValueError"}

\* C29: TestingPillar.evaluate returns an empty list for every directory; a
\* scan of an existing directory with the eight default pillars returns a
\* result in which the Testing pillar has no checks and the score 100.0, so
\* it adds 100.0 with weight 1.0 to overall_score and nothing to the summary
\* counts, whatever the directory holds.
C29_TestingAlwaysPerfect ==
    /\ \A d \in MainDirs :
          BuiltinEvaluate("Testing", d) = [raises |-> FALSE, exc |-> "None", checks |-> <<>>]
    /\ DefaultScanEnded =>
          /\ call.scanned # NoResult
          /\ \E k \in 1..Len(call.scanned.pillars) :
                /\ call.scanned.pillars[k].name = BuiltinName("Testing")
                /\ call.scanned.pillars[k].checks = <<>>
                /\ call.scanned.pillars[k].score = R(100)
                /\ call.scanned.pillars[k].weight = R(1)

McpReturned == call.fn = "call_tool" /\ call.done

IsError(json) == "error" \in DOMAIN json

\* the pillar names a request asks for
RequestedNames(name, a) ==
    CASE name = "scan_repository" -> {a.pillars[k] : k \in 1..Len(a.pillars)}
      [] name \in {"scan_pillar", "check_file"} -> {a.pillar} \ {<<>>}
      [] OTHER -> {}

\* C30: what call_tool returns for a request is a JSON object, and it is an
\* object with an "error" key when the tool name is unknown, when the path
\* is missing or is not an existing directory, when another required
\* argument is missing, or when a requested pillar name names no default
\* pillar, in which case no scan was run.
C30_ToolsReturnErrors ==
    McpReturned =>
        LET a == call.arguments
            tool == call.name \in ToolNames \ {"other"}
        IN  /\ call.name = "other" => IsError(call.ret)
            /\ (tool /\ a.path # "dir") => IsError(call.ret)
            /\ (call.name = "scan_pillar" /\ a.pillar = <<>>) => IsError(call.ret)
            /\ (call.name = "check_file" /\ (a.pillar = <<>> \/ a.file_path = "None"))
                  => IsError(call.ret)
            /\ (\E n \in RequestedNames(call.name, a) : Named(n) = {})
                  => (IsError(call.ret) /\ call.scans = 0)

====
